---- MODULE Spec2Model ----
(***************************************************************************)
(* State-machine model of the Halom node's two pallets:                    *)
(*   halom_oracle  (node/pallets/halom_oracle/src/lib.rs)                  *)
(*   pow_rewards   (node/pallets/pow_rewards/src/lib.rs)                   *)
(* configured as in node/runtime/src/lib.rs.                               *)
(*                                                                         *)
(* One action per dispatchable.  A dispatchable that returns Err after it  *)
(* has written storage behaves in one of two ways, depending on how it is  *)
(* invoked: through the runtime's dispatch every extrinsic runs in a       *)
(* storage layer that is rolled back on Err; called as a plain function    *)
(* (as the pallets' unit tests do) the writes made before the Err stay.    *)
(* The variable `transactional` fixes which of the two a behaviour sees.   *)
(*                                                                         *)
(* Arithmetic is that of the release build of the runtime: Permill         *)
(* addition clamps at 100%, Permill * balance rounds to nearest.           *)
(***************************************************************************)
EXTENDS Integers, Sequences, FiniteSets, TLC

----------------------------------------------------------------------------
(* Configuration: impl halom_oracle::Config for Runtime *)

VotingPeriod == 1000
MinUpdateInterval == 100
MaxUpdateInterval == 2400
MinSourcesForConsensus == 2
RequiredMajority == 66

\* BoundedVec<Vec<u8>, ConstU32<10>>
MaxAllowedSources == 10

----------------------------------------------------------------------------
(* Origins and accounts *)

\* RawOrigin::Root; every other origin is Signed(account)
Root == 0
Accounts == 1..4
Origins == {Root} \cup Accounts

\* ensure_signed(origin): Ok(who) exactly for a signed origin
ensure_signed(origin) == origin # Root

\* T::OracleUpdateOrigin = EnsureRoot<AccountId>
OracleUpdateOrigin(origin) == origin = Root

\* T::GovernanceOrigin = EnsureRoot<AccountId>
GovernanceOrigin(origin) == origin = Root

\* T::CouncilMembers::is_council_member: three council members, accounts 1, 2, 3
is_council_member(who) == who \in {1, 2, 3}

----------------------------------------------------------------------------
(* Inputs the model enumerates *)

\* source identifiers (Vec<u8>); the first three are the genesis sources
GenesisSources == <<"KSH", "MNB", "EUROSTAT">>
SourceIds == {"KSH", "MNB", "EUROSTAT", "INVALID"}

\* the blocks at which calls are made: the clock only moves forward, and the
\* blocks around each deadline of the configuration are present
Blocks == {0, 1, MinUpdateInterval - 1, MinUpdateInterval, MinUpdateInterval + 1,
           2 * MinUpdateInterval, VotingPeriod, VotingPeriod + 1, VotingPeriod + 2}

----------------------------------------------------------------------------
VARIABLES
    now,              \* frame_system::Pallet::<T>::block_number()
    CurrentHOI,       \* StorageValue<u32, ValueQuery>
    LastUpdate,       \* StorageValue<BlockNumber, ValueQuery>
    UpdateInterval,   \* StorageValue<BlockNumber, ValueQuery>
    MinSources,       \* StorageValue<u32, ValueQuery>
    AllowedSources,   \* StorageValue<BoundedVec<Vec<u8>, 10>, ValueQuery>
    SourceValues,     \* StorageMap<Vec<u8>, u32>: the stored keys and their values
    Proposals,        \* StorageMap<T::Hash, Proposal, OptionQuery>
    Licenses,         \* StorageMap<AccountId, License, ValueQuery>
    TotalIssuance,    \* StorageValue<Balance, ValueQuery>
    StakingInfo,      \* StorageMap<AccountId, Balance, ValueQuery>
    free,             \* Currency: free balance of each account
    reserved,         \* Currency: reserved balance of each account
    transactional,    \* TRUE: dispatched as an extrinsic (Err rolls storage back)
    call,             \* the last call made, with its arguments
    result,           \* what the last call returned: "Ok" or the error's name
    lastDirect        \* block of the last successful submit_hoi extrinsic, -1 if none

oracleVars == <<CurrentHOI, LastUpdate, UpdateInterval, MinSources, AllowedSources,
                SourceValues>>
rewardVars == <<Licenses, TotalIssuance, StakingInfo, free, reserved>>
vars == <<now, CurrentHOI, LastUpdate, UpdateInterval, MinSources, AllowedSources,
          SourceValues, Proposals, Licenses, TotalIssuance, StakingInfo, free, reserved,
          transactional, call, result, lastDirect>>

----------------------------------------------------------------------------
(* Helpers *)

Range(s) == {s[i] : i \in 1..Len(s)}

\* StorageMap::insert(key, value)
MapInsert(m, k, v) == [x \in DOMAIN m \cup {k} |-> IF x = k THEN v ELSE m[x]]

RECURSIVE SumOver(_, _)
\* values.iter().map(|(_, v)| v).sum()
SumOver(m, keys) ==
    IF keys = {} THEN 0
    ELSE LET k == CHOOSE x \in keys : TRUE IN m[k] + SumOver(m, keys \ {k})

\* sources.remove(pos): the vector without its element at pos (1-based here)
RemoveAt(s, pos) == [i \in 1..(Len(s) - 1) |-> IF i < pos THEN s[i] ELSE s[i + 1]]

\* sources.iter().position(|s| s == &source), 0 for None
PositionOf(s, x) ==
    IF x \in Range(s) THEN CHOOSE i \in 1..Len(s) : s[i] = x /\ \A j \in 1..(i - 1) : s[j] # x
    ELSE 0

----------------------------------------------------------------------------
(* halom_oracle *)

\* fn is_allowed_source
is_allowed_source(source) == \E i \in 1..Len(AllowedSources) : AllowedSources[i] = source

\* the gate left out: every submission passes
IntervalElapsed_always == TRUE

\* the ensure! of submit_hoi: now >= last_update.saturating_add(interval)
IntervalElapsed == now >= LastUpdate + UpdateInterval

\* the body of submit_hoi as a function of the storage it reads: what it
\* returns and what CurrentHOI and LastUpdate hold when it returns
submit_hoi_outcome(origin, value) ==
    IF ~OracleUpdateOrigin(origin)
    THEN [res |-> "BadOrigin", hoi |-> CurrentHOI, last |-> LastUpdate]
    ELSE IF ~IntervalElapsed
    THEN [res |-> "TooEarlyToUpdate", hoi |-> CurrentHOI, last |-> LastUpdate]
    ELSE [res |-> "Ok", hoi |-> value, last |-> now]

\* the number of stored submissions try_consensus requires
ConsensusQuorum == MinSourcesForConsensus

\* consensus that writes the mean itself instead of going through submit_hoi
try_consensus_ungated(values) ==
    IF Cardinality(DOMAIN values) < ConsensusQuorum
    THEN [res |-> "InsufficientSources", hoi |-> CurrentHOI, last |-> LastUpdate]
    ELSE [res |-> "Ok",
          hoi |-> SumOver(values, DOMAIN values) \div Cardinality(DOMAIN values),
          last |-> now]

\* a u32 is written hi * Half + lo with lo < Half
Half == 65536

\* the sum of the stored values as <<hi, lo>> with lo < Half, not reduced to
\* 32 bits
wide_sum(values) ==
    LET lo == SumOver([s \in DOMAIN values |-> values[s] % Half], DOMAIN values)
        hi == SumOver([s \in DOMAIN values |-> values[s] \div Half], DOMAIN values)
    IN  <<hi + lo \div Half, lo % Half>>

\* the sum as `let sum: u32 = ...sum()` holds it when the additions wrap
wrapping_sum(values) == <<wide_sum(values)[1] % Half, wide_sum(values)[2]>>

\* w / n for w = <<hi, lo>>, by long division
wide_div(w, n) == (w[1] \div n) * Half + ((w[1] % n) * Half + w[2]) \div n

\* fn try_consensus, run on the submissions `values` that are stored when it
\* is called, in a release build: the additions of the u32 sum wrap (they
\* panic in a build with overflow checks)
try_consensus(values) ==
    IF Cardinality(DOMAIN values) < ConsensusQuorum
    THEN [res |-> "InsufficientSources", hoi |-> CurrentHOI, last |-> LastUpdate]
    ELSE LET sum == wrapping_sum(values)
             avg == wide_div(sum, Cardinality(DOMAIN values))
         IN  submit_hoi_outcome(Root, avg)

\* what storage holds of a write made before a call returned `res`
Committed(res, written, old) ==
    IF res = "Ok" \/ ~transactional THEN written ELSE old

submit_hoi(origin, value) ==
    LET out == submit_hoi_outcome(origin, value) IN
    /\ call' = [name |-> "submit_hoi", origin |-> origin, value |-> value]
    /\ result' = out.res
    /\ CurrentHOI' = out.hoi
    /\ LastUpdate' = out.last
    /\ lastDirect' = IF out.res = "Ok" THEN now ELSE lastDirect
    /\ UNCHANGED <<now, UpdateInterval, MinSources, AllowedSources, SourceValues,
                   transactional,
                   Proposals, rewardVars>>

\* the checks without the test of new_min_sources
update_parameters_result_interval_only(origin, new_interval, new_min_sources) ==
    IF ~GovernanceOrigin(origin) THEN "BadOrigin"
    ELSE IF ~(new_interval >= MinUpdateInterval) THEN "UpdateIntervalTooLow"
    ELSE IF ~(new_interval <= MaxUpdateInterval) THEN "UpdateIntervalTooHigh"
    ELSE "Ok"

\* the result of update_parameters
update_parameters_result(origin, new_interval, new_min_sources) ==
    IF ~GovernanceOrigin(origin) THEN "BadOrigin"
    ELSE IF ~(new_interval >= MinUpdateInterval) THEN "UpdateIntervalTooLow"
    ELSE IF ~(new_interval <= MaxUpdateInterval) THEN "UpdateIntervalTooHigh"
    ELSE IF ~(new_min_sources >= 1 /\ new_min_sources <= 10) THEN "InvalidMinSources"
    ELSE "Ok"

update_parameters(origin, new_interval, new_min_sources) ==
    LET res == update_parameters_result(origin, new_interval, new_min_sources) IN
    /\ call' = [name |-> "update_parameters", origin |-> origin,
                new_interval |-> new_interval, new_min_sources |-> new_min_sources]
    /\ result' = res
    /\ UpdateInterval' = IF res = "Ok" THEN new_interval ELSE UpdateInterval
    /\ MinSources' = IF res = "Ok" THEN new_min_sources ELSE MinSources
    /\ UNCHANGED <<now, CurrentHOI, LastUpdate, AllowedSources, SourceValues,
                   transactional, lastDirect,
                   Proposals, rewardVars>>

\* the checks without the capacity of the bounded vector
add_source_result_unbounded(origin, source) ==
    IF ~GovernanceOrigin(origin) THEN "BadOrigin"
    ELSE IF \E i \in 1..Len(AllowedSources) : AllowedSources[i] = source
    THEN "SourceAlreadyExists"
    ELSE "Ok"

\* the result of add_source
add_source_result(origin, source) ==
    IF ~GovernanceOrigin(origin) THEN "BadOrigin"
    ELSE IF \E i \in 1..Len(AllowedSources) : AllowedSources[i] = source
    THEN "SourceAlreadyExists"
    ELSE IF Len(AllowedSources) >= MaxAllowedSources THEN "TooManySources"
    ELSE "Ok"

add_source(origin, source) ==
    LET res == add_source_result(origin, source) IN
    /\ call' = [name |-> "add_source", origin |-> origin, source |-> source]
    /\ result' = res
    /\ AllowedSources' = IF res = "Ok" THEN Append(AllowedSources, source)
                         ELSE AllowedSources
    /\ UNCHANGED <<now, CurrentHOI, LastUpdate, UpdateInterval, MinSources,
                   SourceValues, transactional, lastDirect,
                   Proposals, rewardVars>>

\* the result of remove_source
remove_source_result(origin, source) ==
    IF ~GovernanceOrigin(origin) THEN "BadOrigin"
    ELSE IF PositionOf(AllowedSources, source) = 0 THEN "SourceNotFound"
    ELSE "Ok"

remove_source(origin, source) ==
    LET res == remove_source_result(origin, source) IN
    /\ call' = [name |-> "remove_source", origin |-> origin, source |-> source]
    /\ result' = res
    /\ AllowedSources' = IF res = "Ok"
                         THEN RemoveAt(AllowedSources, PositionOf(AllowedSources, source))
                         ELSE AllowedSources
    /\ UNCHANGED <<now, CurrentHOI, LastUpdate, UpdateInterval, MinSources,
                   SourceValues, transactional, lastDirect,
                   Proposals, rewardVars>>

\* the checks without the allowed-source test
submit_source_value_checks_any_source(origin, source) ==
    IF ~OracleUpdateOrigin(origin) THEN "BadOrigin" ELSE "Ok"

\* the checks submit_source_value makes before it writes: "Ok" when they pass
submit_source_value_checks(origin, source) ==
    IF ~OracleUpdateOrigin(origin) THEN "BadOrigin"
    ELSE IF ~is_allowed_source(source) THEN "InvalidSource"
    ELSE "Ok"

submit_source_value(origin, source, value) ==
    LET pre == submit_source_value_checks(origin, source)
        inserted == MapInsert(SourceValues, source, value)
        out == try_consensus(inserted)
    IN
    /\ call' = [name |-> "submit_source_value", origin |-> origin, source |-> source,
                value |-> value]
    /\ IF pre # "Ok"
       THEN /\ result' = pre
            /\ UNCHANGED <<CurrentHOI, LastUpdate, SourceValues>>
       ELSE /\ result' = out.res
            /\ SourceValues' = Committed(out.res, inserted, SourceValues)
            /\ CurrentHOI' = out.hoi
            /\ LastUpdate' = out.last
    /\ UNCHANGED <<now, UpdateInterval, MinSources, AllowedSources, transactional,
                   lastDirect,
                   Proposals, rewardVars>>

\* the block number moves forward between calls, to one of `blocks`
AdvanceBlock(blocks) ==
    /\ \E b \in blocks : b > now /\ now' = b
    /\ call' = [name |-> "advance_block"]
    /\ result' = "Ok"
    /\ UNCHANGED <<oracleVars, transactional, lastDirect,
                   Proposals, rewardVars>>

----------------------------------------------------------------------------
(* halom_oracle: governance *)

\* T::Hashing::hash_of(&proposal): a hash of the proposal's encoded fields;
\* proposals with different fields have different hashes
hash_of(proposal) ==
    <<proposal.proposer, proposal.parameter, proposal.votes_for, proposal.votes_against,
      proposal.end_block, proposal.status>>

\* the validation with the lower bounds only
validate_parameter_lower_only(parameter) ==
    IF parameter.kind = "UpdateInterval"
    THEN IF ~(parameter.value >= MinUpdateInterval) THEN "UpdateIntervalTooLow" ELSE "Ok"
    ELSE IF parameter.kind = "MinSources"
    THEN IF ~(parameter.value >= 1) THEN "InvalidMinSources" ELSE "Ok"
    ELSE IF ~(parameter.value > 0) THEN "InvalidParameterValue" ELSE "Ok"

\* the match of propose_parameter_change that validates the parameter
validate_parameter(parameter) ==
    IF parameter.kind = "UpdateInterval"
    THEN IF ~(parameter.value >= MinUpdateInterval) THEN "UpdateIntervalTooLow"
         ELSE IF ~(parameter.value <= MaxUpdateInterval) THEN "UpdateIntervalTooHigh"
         ELSE "Ok"
    ELSE IF parameter.kind = "MinSources"
    THEN IF ~(parameter.value >= 1 /\ parameter.value <= 10) THEN "InvalidMinSources"
         ELSE "Ok"
    ELSE IF ~(parameter.value > 0 /\ parameter.value <= 100) THEN "InvalidParameterValue"
         ELSE "Ok"

\* the result of propose_parameter_change
propose_parameter_change_result(origin, parameter) ==
    IF ~ensure_signed(origin) THEN "BadOrigin"
    ELSE IF ~is_council_member(origin) THEN "NotCouncilMember"
    ELSE validate_parameter(parameter)

\* the Proposal that propose_parameter_change builds
new_proposal(who, parameter) ==
    [proposer |-> who, parameter |-> parameter, votes_for |-> <<who>>,
     votes_against |-> << >>, end_block |-> now + VotingPeriod, status |-> "Active"]

propose_parameter_change(origin, parameter) ==
    LET res == propose_parameter_change_result(origin, parameter)
        proposal == new_proposal(origin, parameter)
    IN
    /\ call' = [name |-> "propose_parameter_change", origin |-> origin,
                parameter |-> parameter]
    /\ result' = res
    /\ Proposals' = IF res = "Ok" THEN MapInsert(Proposals, hash_of(proposal), proposal)
                    ELSE Proposals
    /\ UNCHANGED <<now, oracleVars, rewardVars, transactional, lastDirect>>

\* the already-voted test that looks at votes_for only
has_voted_for_only(proposal, who) == who \in Range(proposal.votes_for)

\* proposal.votes_for.contains(&who) || proposal.votes_against.contains(&who)
has_voted(proposal, who) ==
    who \in Range(proposal.votes_for) \/ who \in Range(proposal.votes_against)

\* no deadline test
voting_open_always(proposal) == TRUE

\* the deadline test with < for <=
voting_open_strict(proposal) == now < proposal.end_block

\* current_block <= proposal.end_block
voting_open(proposal) == now <= proposal.end_block

\* the checks of vote_on_proposal, in the order the code makes them
vote_on_proposal_result(origin, proposal_hash) ==
    IF ~ensure_signed(origin) THEN "BadOrigin"
    ELSE IF ~is_council_member(origin) THEN "NotCouncilMember"
    ELSE IF proposal_hash \notin DOMAIN Proposals THEN "ProposalNotFound"
    ELSE IF Proposals[proposal_hash].status # "Active" THEN "ProposalExpired"
    ELSE IF ~voting_open(Proposals[proposal_hash]) THEN "ProposalExpired"
    ELSE IF has_voted(Proposals[proposal_hash], origin) THEN "AlreadyVoted"
    ELSE "Ok"

\* the if approve { votes_for.push(who) } else { votes_against.push(who) }
record_vote(proposal, who, approve) ==
    IF approve
    THEN [proposal EXCEPT !.votes_for = Append(@, who)]
    ELSE [proposal EXCEPT !.votes_against = Append(@, who)]

\* the resolution test without the total of the votes
should_resolve_proposal_without_total(proposal) ==
    LET required_votes == RequiredMajority
    IN  \/ Len(proposal.votes_for) >= required_votes
        \/ Len(proposal.votes_against) >= required_votes

\* fn should_resolve_proposal
should_resolve_proposal(proposal) ==
    LET total_votes == Len(proposal.votes_for) + Len(proposal.votes_against)
        required_votes == RequiredMajority
    IN  \/ Len(proposal.votes_for) >= required_votes
        \/ Len(proposal.votes_against) >= required_votes
        \/ total_votes >= RequiredMajority

\* the approval test with > for >=
is_approved_strict(proposal) ==
    LET total_votes == Len(proposal.votes_for) + Len(proposal.votes_against)
        approval_threshold == (total_votes * RequiredMajority) \div 100
    IN  Len(proposal.votes_for) > approval_threshold

\* the test of resolve_proposal: votes_for.len() >= approval_threshold
is_approved(proposal) ==
    LET total_votes == Len(proposal.votes_for) + Len(proposal.votes_against)
        approval_threshold == (total_votes * RequiredMajority) \div 100
    IN  Len(proposal.votes_for) >= approval_threshold

\* fn resolve_proposal: the proposal with its new status
resolve_proposal(proposal) ==
    IF is_approved(proposal)
    THEN [proposal EXCEPT !.status = "Approved"]
    ELSE [proposal EXCEPT !.status = "Rejected"]

\* an enactment that stores a consensus threshold as MinSources
enact_proposal_threshold_as_min_sources(proposal) ==
    [interval |-> IF proposal.parameter.kind = "UpdateInterval"
                  THEN proposal.parameter.value ELSE UpdateInterval,
     min_sources |-> IF proposal.parameter.kind \in {"MinSources", "ConsensusThreshold"}
                     THEN proposal.parameter.value ELSE MinSources]

\* fn enact_proposal: UpdateInterval and MinSources after the enactment
enact_proposal(proposal) ==
    [interval |-> IF proposal.parameter.kind = "UpdateInterval"
                  THEN proposal.parameter.value ELSE UpdateInterval,
     min_sources |-> IF proposal.parameter.kind = "MinSources"
                     THEN proposal.parameter.value ELSE MinSources]

vote_on_proposal(origin, proposal_hash, approve) ==
    LET res == vote_on_proposal_result(origin, proposal_hash) IN
    /\ call' = [name |-> "vote_on_proposal", origin |-> origin,
                proposal_hash |-> proposal_hash, approve |-> approve]
    /\ result' = res
    /\ IF res # "Ok"
       THEN UNCHANGED <<Proposals, UpdateInterval, MinSources>>
       ELSE LET voted == record_vote(Proposals[proposal_hash], origin, approve)
                final == IF should_resolve_proposal(voted) THEN resolve_proposal(voted)
                         ELSE voted
                params == IF final.status = "Approved" THEN enact_proposal(final)
                          ELSE [interval |-> UpdateInterval, min_sources |-> MinSources]
            IN  /\ Proposals' = MapInsert(Proposals, proposal_hash, final)
                /\ UpdateInterval' = params.interval
                /\ MinSources' = params.min_sources
    /\ UNCHANGED <<now, CurrentHOI, LastUpdate, AllowedSources, SourceValues, rewardVars,
                   transactional, lastDirect>>

\* no approval test
is_approved_at_always(required_majority, proposal) == TRUE

\* the test of resolve_proposal in a runtime whose T::RequiredMajority is
\* required_majority
is_approved_at(required_majority, proposal) ==
    LET total_votes == Len(proposal.votes_for) + Len(proposal.votes_against)
        approval_threshold == (total_votes * required_majority) \div 100
    IN  Len(proposal.votes_for) >= approval_threshold

\* fn should_resolve_proposal in such a runtime
should_resolve_proposal_at(required_majority, proposal) ==
    LET total_votes == Len(proposal.votes_for) + Len(proposal.votes_against)
        required_votes == required_majority
    IN  \/ Len(proposal.votes_for) >= required_votes
        \/ Len(proposal.votes_against) >= required_votes
        \/ total_votes >= required_majority

\* fn resolve_proposal in such a runtime
resolve_proposal_at(required_majority, proposal) ==
    IF is_approved_at(required_majority, proposal)
    THEN [proposal EXCEPT !.status = "Approved"]
    ELSE [proposal EXCEPT !.status = "Rejected"]

\* vote_on_proposal in such a runtime; the call records the configuration
vote_on_proposal_at(required_majority, origin, proposal_hash, approve) ==
    LET res == vote_on_proposal_result(origin, proposal_hash) IN
    /\ call' = [name |-> "vote_on_proposal", origin |-> origin,
                proposal_hash |-> proposal_hash, approve |-> approve,
                required_majority |-> required_majority]
    /\ result' = res
    /\ IF res # "Ok"
       THEN UNCHANGED <<Proposals, UpdateInterval, MinSources>>
       ELSE LET voted == record_vote(Proposals[proposal_hash], origin, approve)
                final == IF should_resolve_proposal_at(required_majority, voted)
                         THEN resolve_proposal_at(required_majority, voted)
                         ELSE voted
                params == IF final.status = "Approved" THEN enact_proposal(final)
                          ELSE [interval |-> UpdateInterval, min_sources |-> MinSources]
            IN  /\ Proposals' = MapInsert(Proposals, proposal_hash, final)
                /\ UpdateInterval' = params.interval
                /\ MinSources' = params.min_sources
    /\ UNCHANGED <<now, CurrentHOI, LastUpdate, AllowedSources, SourceValues, rewardVars,
                   transactional, lastDirect>>

----------------------------------------------------------------------------
(* pow_rewards: constants and configuration *)

MAX_SUPPLY == 100000000
BASE_REWARD == 50

\* Permill: parts per million, at most PermillMax parts
PermillMax == 1000000

\* TreasuryFeePercent = Permill::from_percent(15), in parts
TreasuryFeePercent == 150000
LicenseDuration == 2628000
\* Config::MinimumStake and Config::StakingBonus (in parts): the runtime names
\* them without defining them; the values are the model's
MinimumStake == 1000
StakingBonus == 100000
\* pallet_balances: ExistentialDeposit
ExistentialDeposit == 1000000
\* the balance the genesis accounts 1..3 hold
GenesisBalance == 10000000

\* fn treasury_account_id: the account derived from TreasuryPalletId
Treasury == 5
LedgerAccounts == Accounts \cup {Treasury}

LicenseTypes == {"Standard", "Premium", "Enterprise"}

\* Licenses is a ValueQuery map: the value read for an account without a record
NoLicense == [active |-> FALSE, expiry |-> 0, license_type |-> "Standard"]

GenesisBalances ==
    [a \in LedgerAccounts |->
        IF a \in {1, 2, 3} THEN GenesisBalance
        ELSE IF a = Treasury THEN ExistentialDeposit
        ELSE 0]

----------------------------------------------------------------------------
(* Permill arithmetic (sp_arithmetic::Permill) *)

\* Permill::from_parts: clamps to one million parts
Permill_from_parts(parts) == IF parts > PermillMax THEN PermillMax ELSE parts

\* Permill::from_percent
Permill_from_percent(x) == Permill_from_parts((IF x > 100 THEN 100 ELSE x) * 10000)

\* the sum of the parts without the clamp
Permill_add_unclamped(a, b) == a + b

\* Permill + Permill: from_parts of the sum of the parts, so it clamps at 100%
Permill_add(a, b) == Permill_from_parts(a + b)

\* Permill * balance: x * parts / 1_000_000 rounded to the nearest integer, a
\* tie rounded down.  The product is split in thousands (parts = 1000 q + r) so
\* that no intermediate value leaves the checker's integer range; the quotient
\* and remainder are exact for x up to 2_000_000.
Permill_mul(parts, x) ==
    LET q  == parts \div 1000
        r  == parts % 1000
        B  == x * r
        C  == x * q + (B \div 1000)
        quotient  == C \div 1000
        remainder == 1000 * (C % 1000) + (B % 1000)
    IN  IF remainder > PermillMax \div 2 THEN quotient + 1 ELSE quotient

----------------------------------------------------------------------------
(* Currency (pallet_balances), as far as pow_rewards uses it *)

\* Currency::transfer(from, to, amount, KeepAlive): its result
Currency_transfer_result(from, to, amount) ==
    IF free[from] < amount THEN "InsufficientBalance"
    ELSE IF free[from] - amount < ExistentialDeposit THEN "KeepAlive"
    ELSE IF free[to] + reserved[to] + amount < ExistentialDeposit THEN "ExistentialDeposit"
    ELSE "Ok"

\* the free balances after a successful transfer
Currency_transfer(from, to, amount) ==
    [a \in LedgerAccounts |->
        IF from = to THEN free[a]
        ELSE IF a = from THEN free[a] - amount
        ELSE IF a = to THEN free[a] + amount
        ELSE free[a]]

\* Currency::deposit_creating(who, value): the free balances afterwards; a
\* deposit below the existential deposit into an empty account is dropped
Currency_deposit_creating(who, value) ==
    IF value = 0 \/ (free[who] + reserved[who] = 0 /\ value < ExistentialDeposit)
    THEN free
    ELSE [free EXCEPT ![who] = @ + value]

\* Currency::reserve(who, amount): its result
Currency_reserve_result(who, amount) ==
    IF free[who] < amount THEN "InsufficientBalance" ELSE "Ok"

\* Currency::unreserve(who, amount): the amount it moves back to free
Currency_unreserve_amount(who, amount) ==
    IF reserved[who] < amount THEN reserved[who] ELSE amount

----------------------------------------------------------------------------
(* pow_rewards *)

\* LicenseType::get_boost, in parts
get_boost(license_type) ==
    IF license_type = "Standard" THEN Permill_from_percent(20)
    ELSE IF license_type = "Premium" THEN Permill_from_percent(35)
    ELSE Permill_from_percent(50)

\* LicenseType::get_price
get_price(license_type) ==
    IF license_type = "Standard" THEN 5000
    ELSE IF license_type = "Premium" THEN 25000
    ELSE 100000

\* the reward calculate_reward computes before its supply check
final_reward(miner) ==
    LET base_reward == BASE_REWARD
        hoi == CurrentHOI
        inflation_bonus == Permill_from_parts(hoi)
        reward_with_inflation == Permill_mul(inflation_bonus, base_reward)
        license_bonus == IF Licenses[miner].active
                         THEN get_boost(Licenses[miner].license_type)
                         ELSE 0
        reward_with_license ==
            Permill_mul(Permill_add(Permill_from_percent(100), license_bonus),
                        reward_with_inflation)
        staked == StakingInfo[miner]
        staking_bonus == IF staked >= MinimumStake THEN StakingBonus ELSE 0
    IN  Permill_mul(Permill_add(Permill_from_percent(100), staking_bonus),
                    reward_with_license)

\* no supply check
within_supply_cap_unchecked(new_total) == TRUE

\* the supply check with < for <=
within_supply_cap_strict(new_total) == new_total < MAX_SUPPLY

\* the supply check: new_total <= MAX_SUPPLY (made by calculate_reward and
\* again by issue_reward)
within_supply_cap(new_total) == new_total <= MAX_SUPPLY

\* fn calculate_reward
calculate_reward(miner) ==
    LET reward == final_reward(miner)
        new_total == TotalIssuance + reward
    IN  IF ~within_supply_cap(new_total)
        THEN [res |-> "SupplyCapReached", reward |-> 0]
        ELSE [res |-> "Ok", reward |-> reward]

\* the result of issue_reward
issue_reward_result(origin, miner) ==
    IF ~ensure_signed(origin) THEN "BadOrigin"
    ELSE IF calculate_reward(miner).res # "Ok" THEN calculate_reward(miner).res
    ELSE IF ~within_supply_cap(TotalIssuance + calculate_reward(miner).reward)
    THEN "SupplyCapReached"
    ELSE "Ok"

issue_reward(origin, miner) ==
    LET res == issue_reward_result(origin, miner)
        reward == calculate_reward(miner).reward
    IN
    /\ call' = [name |-> "issue_reward", origin |-> origin, miner |-> miner]
    /\ result' = res
    /\ IF res = "Ok"
       THEN /\ free' = Currency_deposit_creating(miner, reward)
            /\ TotalIssuance' = TotalIssuance + reward
       ELSE UNCHANGED <<free, TotalIssuance>>
    /\ UNCHANGED <<now, oracleVars, Proposals, Licenses, StakingInfo, reserved,
                   transactional, lastDirect>>

\* the whole price as the fee
license_fee_full_price(license_type) == get_price(license_type)

\* the fee purchase_license transfers to the treasury
license_fee(license_type) == Permill_mul(TreasuryFeePercent, get_price(license_type))

\* the checks without the test of the caller's current license
purchase_license_result_any_license(origin, license_type) ==
    IF ~ensure_signed(origin) THEN "BadOrigin"
    ELSE Currency_transfer_result(origin, Treasury, license_fee(license_type))

\* the result of purchase_license
purchase_license_result(origin, license_type) ==
    IF ~ensure_signed(origin) THEN "BadOrigin"
    ELSE IF Licenses[origin].active THEN "LicenseAlreadyActive"
    ELSE Currency_transfer_result(origin, Treasury, license_fee(license_type))

purchase_license(origin, license_type) ==
    LET res == purchase_license_result(origin, license_type) IN
    /\ call' = [name |-> "purchase_license", origin |-> origin,
                license_type |-> license_type]
    /\ result' = res
    /\ IF res = "Ok"
       THEN /\ free' = Currency_transfer(origin, Treasury, license_fee(license_type))
            /\ Licenses' = [Licenses EXCEPT ![origin] =
                               [active |-> TRUE, expiry |-> now + LicenseDuration,
                                license_type |-> license_type]]
       ELSE UNCHANGED <<free, Licenses>>
    /\ UNCHANGED <<now, oracleVars, Proposals, TotalIssuance, StakingInfo, reserved,
                   transactional, lastDirect>>

\* the checks without the test of the amount
stake_tokens_result_any_amount(origin, amount) ==
    IF ~ensure_signed(origin) THEN "BadOrigin"
    ELSE Currency_reserve_result(origin, amount)

\* the result of stake_tokens
stake_tokens_result(origin, amount) ==
    IF ~ensure_signed(origin) THEN "BadOrigin"
    ELSE IF ~(amount >= MinimumStake) THEN "InsufficientStake"
    ELSE Currency_reserve_result(origin, amount)

stake_tokens(origin, amount) ==
    LET res == stake_tokens_result(origin, amount) IN
    /\ call' = [name |-> "stake_tokens", origin |-> origin, amount |-> amount]
    /\ result' = res
    /\ IF res = "Ok"
       THEN /\ free' = [free EXCEPT ![origin] = @ - amount]
            /\ reserved' = [reserved EXCEPT ![origin] = @ + amount]
            /\ StakingInfo' = [StakingInfo EXCEPT ![origin] = amount]
       ELSE UNCHANGED <<free, reserved, StakingInfo>>
    /\ UNCHANGED <<now, oracleVars, Proposals, Licenses, TotalIssuance,
                   transactional, lastDirect>>

\* the checks without the test of the stake
unstake_tokens_result_any_stake(origin) ==
    IF ~ensure_signed(origin) THEN "BadOrigin" ELSE "Ok"

\* the result of unstake_tokens
unstake_tokens_result(origin) ==
    IF ~ensure_signed(origin) THEN "BadOrigin"
    ELSE IF ~(StakingInfo[origin] > 0) THEN "NoStake"
    ELSE "Ok"

unstake_tokens(origin) ==
    LET res == unstake_tokens_result(origin)
        staked == StakingInfo[origin]
        moved == Currency_unreserve_amount(origin, staked)
    IN
    /\ call' = [name |-> "unstake_tokens", origin |-> origin]
    /\ result' = res
    /\ IF res = "Ok"
       THEN /\ free' = [free EXCEPT ![origin] = @ + moved]
            /\ reserved' = [reserved EXCEPT ![origin] = @ - moved]
            /\ StakingInfo' = [StakingInfo EXCEPT ![origin] = 0]
       ELSE UNCHANGED <<free, reserved, StakingInfo>>
    /\ UNCHANGED <<now, oracleVars, Proposals, Licenses, TotalIssuance,
                   transactional, lastDirect>>

----------------------------------------------------------------------------
(* Genesis: GenesisBuild::build puts initial_sources and calls
   initialize_defaults; every other storage item has its ValueQuery default *)

Init ==
    /\ now = 0
    /\ CurrentHOI = 0
    /\ LastUpdate = 0
    /\ UpdateInterval = MinUpdateInterval
    /\ MinSources = MinSourcesForConsensus
    /\ AllowedSources = GenesisSources
    /\ SourceValues = << >>
    /\ Proposals = << >>
    /\ Licenses = [a \in Accounts |-> NoLicense]
    /\ TotalIssuance = 0
    /\ StakingInfo = [a \in Accounts |-> 0]
    /\ free = GenesisBalances
    /\ reserved = [a \in LedgerAccounts |-> 0]
    /\ transactional \in BOOLEAN
    /\ call = [name |-> "genesis"]
    /\ result = "Ok"
    /\ lastDirect = -1

\* The state after block 100 has been reached, the oracle value set to
\* 1_000_000 by submit_hoi (so that a reward is BASE_REWARD) and issue_reward
\* called for account 1 until two more full rewards fit under MAX_SUPPLY
InitNearCap ==
    /\ now = MinUpdateInterval
    /\ CurrentHOI = PermillMax
    /\ LastUpdate = MinUpdateInterval
    /\ UpdateInterval = MinUpdateInterval
    /\ MinSources = MinSourcesForConsensus
    /\ AllowedSources = GenesisSources
    /\ SourceValues = << >>
    /\ Proposals = << >>
    /\ Licenses = [a \in Accounts |-> NoLicense]
    /\ TotalIssuance = MAX_SUPPLY - 2 * BASE_REWARD
    /\ StakingInfo = [a \in Accounts |-> 0]
    /\ free = [GenesisBalances EXCEPT ![1] = @ + MAX_SUPPLY - 2 * BASE_REWARD]
    /\ reserved = [a \in LedgerAccounts |-> 0]
    /\ transactional \in BOOLEAN
    /\ call = [name |-> "issue_reward", origin |-> 1, miner |-> 1]
    /\ result = "Ok"
    /\ lastDirect = MinUpdateInterval

----------------------------------------------------------------------------
(* The oracle alone: direct and per-source submissions, parameter updates and
   source management, at the blocks around the update interval *)

OracleBlocks == {b \in Blocks : b <= 2 * MinUpdateInterval}

OracleAdvance == AdvanceBlock(OracleBlocks)
OracleSubmitHoi == \E o \in {Root, 1}, v \in {0, 105} : submit_hoi(o, v)
OracleUpdateParameters ==
    \E o \in {Root, 1}, p \in {<<2 * MinUpdateInterval, 3>>, <<MinUpdateInterval - 1, 3>>} :
        update_parameters(o, p[1], p[2])
OracleAddSource == \E s \in {"INVALID", "KSH"} : add_source(Root, s)
OracleRemoveSource == \E s \in {"INVALID"} : remove_source(Root, s)
OracleSubmitSourceValue ==
    \E o \in {Root, 1}, s \in {"KSH", "MNB", "INVALID"}, v \in {520, 540} :
        submit_source_value(o, s, v)

NextOracle ==
    \/ OracleAdvance
    \/ OracleSubmitHoi
    \/ OracleUpdateParameters
    \/ OracleAddSource
    \/ OracleRemoveSource
    \/ OracleSubmitSourceValue

SpecOracle == Init /\ [][NextOracle]_vars

----------------------------------------------------------------------------
(* Governance alone: proposals and votes of the three council members and of
   an account outside the council, up to the end of the voting period *)

\* the parameters proposed: a valid and an invalid value
ParameterInputs ==
    {[kind |-> "MinSources", value |-> 3], [kind |-> "MinSources", value |-> 11]}

\* the number of proposals a behaviour stores
MaxProposals == 1

\* a hash under which no proposal is stored
UnknownHash == <<0, [kind |-> "MinSources", value |-> 3], <<0>>, << >>, 0, "Active">>

GovBlocks == {0, VotingPeriod, VotingPeriod + 1}

GovAdvance == AdvanceBlock(GovBlocks)
\* a proposal that would be stored is made while it fits in the bound
ProposalFits(o, prm) ==
    propose_parameter_change_result(o, prm) = "Ok" =>
        Cardinality(DOMAIN Proposals \cup {hash_of(new_proposal(o, prm))}) <= MaxProposals

GovPropose ==
    \E o \in {Root, 1, 4}, prm \in ParameterInputs :
        ProposalFits(o, prm) /\ propose_parameter_change(o, prm)
GovVote ==
    \E o \in Origins, h \in DOMAIN Proposals \cup {UnknownHash}, approve \in BOOLEAN :
        vote_on_proposal(o, h, approve)

NextGov ==
    \/ GovAdvance
    \/ GovPropose
    \/ GovVote

SpecGov == Init /\ [][NextGov]_vars

----------------------------------------------------------------------------
(* The reward pallet with the oracle value it reads: issuance from genesis and
   next to the supply cap, licenses and stakes *)

\* issue_reward is called while less than this has been issued, or next to
\* the supply cap
MaxIssued == 50

\* stake_tokens is called while the caller has fewer than this many minimum
\* stakes reserved
MaxStakes == 2

StakeInBound(who) == reserved[who] < MaxStakes * MinimumStake

IssuanceInWindow ==
    TotalIssuance < MaxIssued \/ TotalIssuance >= MAX_SUPPLY - 2 * BASE_REWARD

\* the oracle values submitted: 100, 105 and 110 (hundredths) and a half and
\* the whole of a million parts
HoiInputs == {100, 105, 110, PermillMax \div 2, PermillMax}

\* the block at which the oracle accepts its first value, and the first block
\* after the expiry of a license bought at genesis
RewardsBlocks == {MinUpdateInterval, LicenseDuration + 1}

RewardsAdvance == AdvanceBlock(RewardsBlocks)
RewardsSubmitHoi == \E v \in HoiInputs : submit_hoi(Root, v)
\* rewards for account 1, and for account 4, which holds nothing
RewardsIssue ==
    \E c \in {<<Root, 1>>, <<1, 1>>, <<1, 4>>} :
        IssuanceInWindow /\ issue_reward(c[1], c[2])
\* account 1 buys any license; account 4, which holds nothing, tries to
RewardsPurchase ==
    \/ \E t \in LicenseTypes : purchase_license(1, t)
    \/ purchase_license(4, "Standard")
RewardsStake ==
    \E a \in {MinimumStake - 1, MinimumStake} : StakeInBound(1) /\ stake_tokens(1, a)
RewardsUnstake == unstake_tokens(1)

NextRewards ==
    \/ RewardsAdvance
    \/ RewardsSubmitHoi
    \/ RewardsIssue
    \/ RewardsPurchase
    \/ RewardsStake
    \/ RewardsUnstake

SpecRewards == (Init \/ InitNearCap) /\ [][NextRewards]_vars

----------------------------------------------------------------------------
(* Both pallets together: every dispatchable, each with few arguments *)

AllAdvance == AdvanceBlock({MinUpdateInterval})
AllSubmitHoi == submit_hoi(Root, PermillMax)
AllSubmitSourceValue ==
    \E s \in {"KSH", "MNB"} : submit_source_value(Root, s, PermillMax \div 2)
AllUpdateParameters == update_parameters(Root, 2 * MinUpdateInterval, 3)
AllAddSource == add_source(Root, "INVALID")
AllRemoveSource == remove_source(Root, "INVALID")
AllPropose ==
    /\ Proposals = << >>
    /\ propose_parameter_change(1, [kind |-> "MinSources", value |-> 3])
AllVote == \E h \in DOMAIN Proposals, approve \in BOOLEAN : vote_on_proposal(2, h, approve)
AllIssue == IssuanceInWindow /\ issue_reward(1, 1)
AllPurchase == purchase_license(1, "Standard")
AllStake == StakeInBound(1) /\ stake_tokens(1, MinimumStake)
AllUnstake == unstake_tokens(1)

Next ==
    \/ AllAdvance
    \/ AllSubmitHoi
    \/ AllSubmitSourceValue
    \/ AllUpdateParameters
    \/ AllAddSource
    \/ AllRemoveSource
    \/ AllPropose
    \/ AllVote
    \/ AllIssue
    \/ AllPurchase
    \/ AllStake
    \/ AllUnstake

Spec == (Init \/ InitNearCap) /\ [][Next]_vars

----------------------------------------------------------------------------
(* The oracle parameters: update_parameters and proposals with values inside,
   at the ends of and outside the accepted ranges *)

\* values at and next to the ends of each parameter's range
WideParameters ==
    {[kind |-> "UpdateInterval", value |-> v] :
        v \in {MinUpdateInterval - 1, MinUpdateInterval, MaxUpdateInterval,
               MaxUpdateInterval + 1}}
    \cup {[kind |-> "MinSources", value |-> v] : v \in {0, 1, MaxAllowedSources,
                                                       MaxAllowedSources + 1}}
    \cup {[kind |-> "ConsensusThreshold", value |-> v] : v \in {0, 1, 100, 101}}

ParamsAdvance == AdvanceBlock({VotingPeriod})
ParamsUpdate ==
    \E p \in {<<Root, MinUpdateInterval - 1, 1>>, <<Root, MaxUpdateInterval + 1, 1>>,
              <<Root, MinUpdateInterval, 0>>, <<Root, MinUpdateInterval, 1>>,
              <<Root, MaxUpdateInterval, MaxAllowedSources>>,
              <<Root, MaxUpdateInterval, MaxAllowedSources + 1>>,
              <<1, MinUpdateInterval, 1>>} :
        update_parameters(p[1], p[2], p[3])
ParamsPropose ==
    \E p \in ({1} \X WideParameters) \cup ({Root, 4} \X {[kind |-> "MinSources", value |-> 1]}) :
        ProposalFits(p[1], p[2]) /\ propose_parameter_change(p[1], p[2])
ParamsVote == \E h \in DOMAIN Proposals : vote_on_proposal(2, h, TRUE)

NextParams ==
    \/ ParamsAdvance
    \/ ParamsUpdate
    \/ ParamsPropose
    \/ ParamsVote

SpecParams == Init /\ [][NextParams]_vars

----------------------------------------------------------------------------
(* Resolution as a function of the tally. should_resolve_proposal compares
   vote counts with RequiredMajority = 66, a count the three council members
   of the runtime never reach, so the stored proposal is drawn with vote
   lists of the lengths at which the resolution and approval tests change
   their answer; the vote itself is vote_on_proposal *)

\* votes_for of length k: the proposer's own vote, then k - 1 other accounts
VotersFor(k) == [i \in 1..k |-> IF i = 1 THEN 1 ELSE 100 + i]

\* votes_against of length k
VotersAgainst(k) == [i \in 1..k |-> 200 + i]

\* (|votes_for|, |votes_against|) before the vote: a fresh proposal, and
\* tallies one and two votes short of RequiredMajority with votes_for around
\* the approval threshold of a resolved proposal
ResolveTallies ==
    LET at == (RequiredMajority * RequiredMajority) \div 100 IN
    {t \in {1, at - 1, at, at + 1, RequiredMajority - 1} \X (0 .. RequiredMajority) :
        t[1] + t[2] \in {1, RequiredMajority - 2, RequiredMajority - 1}}

ResolveParameters ==
    {[kind |-> "UpdateInterval", value |-> 2 * MinUpdateInterval],
     [kind |-> "MinSources", value |-> 3],
     [kind |-> "ConsensusThreshold", value |-> 50]}

\* the proposal of account 1 for `parameter` with the tally t
tallied_proposal(parameter, t) ==
    [new_proposal(1, parameter) EXCEPT !.votes_for = VotersFor(t[1]),
                                       !.votes_against = VotersAgainst(t[2])]

InitResolve ==
    /\ now = 0
    /\ CurrentHOI = 0
    /\ LastUpdate = 0
    /\ UpdateInterval = MinUpdateInterval
    /\ MinSources = MinSourcesForConsensus
    /\ AllowedSources = GenesisSources
    /\ SourceValues = << >>
    /\ \E parameter \in ResolveParameters, t \in ResolveTallies :
          Proposals = MapInsert(<< >>, hash_of(new_proposal(1, parameter)),
                                tallied_proposal(parameter, t))
    /\ Licenses = [a \in Accounts |-> NoLicense]
    /\ TotalIssuance = 0
    /\ StakingInfo = [a \in Accounts |-> 0]
    /\ free = GenesisBalances
    /\ reserved = [a \in LedgerAccounts |-> 0]
    /\ transactional \in BOOLEAN
    /\ call = [name |-> "genesis"]
    /\ result = "Ok"
    /\ lastDirect = -1

ResolveVote ==
    \E o \in {2, 3}, h \in DOMAIN Proposals, approve \in BOOLEAN :
        vote_on_proposal(o, h, approve)

NextResolve == ResolveVote

SpecResolve == InitResolve /\ [][NextResolve]_vars

----------------------------------------------------------------------------
(* Source management up to the capacity of AllowedSources *)

\* sources added after genesis, in this order
ExtraSources == <<"ECB", "OECD", "IMF", "BIS", "FED", "ONS", "INSEE", "ISTAT">>

\* the first of ExtraSources that is not allowed, if there is one
NextExtraSource ==
    {ExtraSources[i] : i \in {k \in 1..Len(ExtraSources) :
        /\ ~is_allowed_source(ExtraSources[k])
        /\ \A m \in 1..(k - 1) : is_allowed_source(ExtraSources[m])}}

SourcesAdd ==
    \E s \in NextExtraSource \cup {"KSH", "ECB"} : add_source(Root, s)
SourcesRemove ==
    \E s \in {"KSH", "ECB", "INVALID"} : remove_source(Root, s)

NextSources ==
    \/ SourcesAdd
    \/ SourcesRemove

SpecSources == Init /\ [][NextSources]_vars

----------------------------------------------------------------------------
(* Consensus over source values whose sum does not fit in 32 bits *)

\* the values submitted: a small one, and one of which three exceed 2^32
OverflowValues == {5, 2000000000}

OverflowAdvance == AdvanceBlock({MinUpdateInterval})
OverflowSubmit ==
    \E s \in Range(GenesisSources), v \in OverflowValues :
        submit_source_value(Root, s, v)

NextOverflow ==
    \/ OverflowAdvance
    \/ OverflowSubmit

SpecOverflow == Init /\ [][NextOverflow]_vars

----------------------------------------------------------------------------
(* Resolution for every T::RequiredMajority from 1 to 100. The stored
   proposal is drawn one vote short of its resolution, with every division of
   those votes between the two lists; the genesis call records the
   configuration of the behaviour *)

MajorityValues == 1..100

\* the tallies one vote short of the total at which the first vote resolves
MajorityTallies(required_majority) ==
    LET total == IF required_majority < 2 THEN 1 ELSE required_majority - 1
    IN  {<<for, total - for>> : for \in 1..total}

InitMajority ==
    /\ now = 0
    /\ CurrentHOI = 0
    /\ LastUpdate = 0
    /\ UpdateInterval = MinUpdateInterval
    /\ MinSources = MinSourcesForConsensus
    /\ AllowedSources = GenesisSources
    /\ SourceValues = << >>
    /\ Licenses = [a \in Accounts |-> NoLicense]
    /\ TotalIssuance = 0
    /\ StakingInfo = [a \in Accounts |-> 0]
    /\ free = GenesisBalances
    /\ reserved = [a \in LedgerAccounts |-> 0]
    /\ transactional \in BOOLEAN
    /\ result = "Ok"
    /\ lastDirect = -1
    /\ \E required_majority \in MajorityValues :
          /\ call = [name |-> "genesis", required_majority |-> required_majority]
          /\ \E t \in MajorityTallies(required_majority) :
                Proposals =
                    MapInsert(<< >>,
                              hash_of(new_proposal(1, [kind |-> "MinSources", value |-> 3])),
                              tallied_proposal([kind |-> "MinSources", value |-> 3], t))

MajorityVote ==
    \E h \in DOMAIN Proposals, approve \in BOOLEAN :
        vote_on_proposal_at(call.required_majority, 2, h, approve)

NextMajority == MajorityVote

SpecMajority == InitMajority /\ [][NextMajority]_vars

----------------------------------------------------------------------------
(* Properties *)

\* C1: in every reachable state TotalIssuance is at most MAX_SUPPLY, whatever
\* sequence of reward, license, stake, oracle and governance calls led to it.
C1_SupplyCap == TotalIssuance <= MAX_SUPPLY

\* an issuance has brought TotalIssuance to exactly MAX_SUPPLY
C1_Witness ==
    /\ call.name = "issue_reward"
    /\ result = "Ok"
    /\ TotalIssuance = MAX_SUPPLY

\* C2: an issue_reward by a signed caller whose final reward would take
\* TotalIssuance above MAX_SUPPLY fails with SupplyCapReached and changes
\* neither any balance nor TotalIssuance; one whose final reward takes
\* TotalIssuance to exactly MAX_SUPPLY succeeds.
C2_SupplyCheck ==
    [][(call'.name = "issue_reward" /\ ensure_signed(call'.origin)) =>
        LET final == final_reward(call'.miner) IN
        /\ TotalIssuance + final > MAX_SUPPLY =>
              /\ result' = "SupplyCapReached"
              /\ free' = free
              /\ TotalIssuance' = TotalIssuance
        /\ TotalIssuance + final = MAX_SUPPLY =>
              /\ result' = "Ok"
              /\ TotalIssuance' = MAX_SUPPLY]_vars

\* a positive reward has been refused at the cap, after the cap was reached by
\* an issuance that fitted exactly
C2_Witness ==
    /\ call.name = "issue_reward"
    /\ result = "SupplyCapReached"
    /\ final_reward(call.miner) > 0
    /\ TotalIssuance = MAX_SUPPLY

C4_FirstSubmissionAtBlock1 ==
    (/\ call.name = "submit_hoi"
     /\ OracleUpdateOrigin(call.origin)
     /\ call.value # 0
     /\ now = 1
     /\ UpdateInterval = MinUpdateInterval
     /\ lastDirect \in {-1, 1})
    => (result = "Ok" /\ CurrentHOI = call.value /\ LastUpdate = 1)

\* the oracle as genesis leaves it: no update made, default parameters
GenesisOracle ==
    /\ CurrentHOI = 0
    /\ LastUpdate = 0
    /\ UpdateInterval = MinUpdateInterval
    /\ MinSources = MinSourcesForConsensus
    /\ AllowedSources = GenesisSources

\* C5: from genesis with minSources = 2, the submit_source_value calls of two
\* distinct allowed sources both succeed, and once both values v1, v2 are
\* stored CurrentHOI = (v1 + v2) div 2.
C5_ConsensusMean ==
    [][(/\ call'.name = "submit_source_value"
        /\ OracleUpdateOrigin(call'.origin)
        /\ is_allowed_source(call'.source)
        /\ GenesisOracle
        /\ call'.source \notin DOMAIN SourceValues
        /\ Cardinality(DOMAIN SourceValues) <= 1)
       => /\ result' = "Ok"
          /\ \A other \in DOMAIN SourceValues :
                CurrentHOI' = (SourceValues[other] + call'.value) \div 2]_vars

C7_BelowQuorumStores ==
    [][(/\ call'.name = "submit_source_value"
        /\ OracleUpdateOrigin(call'.origin)
        /\ is_allowed_source(call'.source)
        /\ Cardinality(DOMAIN SourceValues \cup {call'.source}) < MinSources
        /\ Cardinality(DOMAIN SourceValues \cup {call'.source}) < MinSourcesForConsensus)
       => /\ result' = "Ok"
          /\ SourceValues' = MapInsert(SourceValues, call'.source, call'.value)
          /\ CurrentHOI' = CurrentHOI
          /\ LastUpdate' = LastUpdate]_vars

\* C8: a submit_source_value for a source that is not in AllowedSources fails
\* (with InvalidSource when the caller is authorized) and changes no storage.
C8_InvalidSource ==
    [][(call'.name = "submit_source_value" /\ ~is_allowed_source(call'.source)) =>
        /\ result' # "Ok"
        /\ OracleUpdateOrigin(call'.origin) => result' = "InvalidSource"
        /\ UNCHANGED <<now, oracleVars, Proposals, rewardVars>>]_vars

\* an authorized caller's submission has been refused for its source, while
\* other submissions are stored
C8_Witness ==
    /\ call.name = "submit_source_value"
    /\ result = "InvalidSource"
    /\ OracleUpdateOrigin(call.origin)
    /\ SourceValues # << >>

\* no account is recorded twice in the votes of a stored proposal
VotesExclusive ==
    \A h \in DOMAIN Proposals :
        LET votes == Proposals[h].votes_for \o Proposals[h].votes_against IN
        \A i, j \in 1..Len(votes) : votes[i] = votes[j] => i = j

\* a vote_on_proposal step by a council member who is already in votes_for or
\* votes_against of the proposal voted on
RevoteStep ==
    /\ call'.name = "vote_on_proposal"
    /\ is_council_member(call'.origin)
    /\ call'.proposal_hash \in DOMAIN Proposals
    /\ has_voted(Proposals[call'.proposal_hash], call'.origin)

\* the proposal voted on is Active and its voting period has not ended
VotedProposalOpen ==
    /\ Proposals[call'.proposal_hash].status = "Active"
    /\ now <= Proposals[call'.proposal_hash].end_block

\* C9 as stated: no account is recorded twice in a proposal's votes, and a
\* vote by a council member already recorded fails with AlreadyVoted and
\* leaves the proposals unchanged.
C9_AlreadyVotedAlways ==
    [][/\ VotesExclusive'
       /\ RevoteStep => (result' = "AlreadyVoted" /\ Proposals' = Proposals)]_vars

\* C9 amended: no account is recorded twice in a proposal's votes, and a vote
\* by a council member already recorded fails and leaves the proposals
\* unchanged: with AlreadyVoted while the proposal is Active and now <=
\* end_block, with ProposalExpired otherwise.
C9_AlreadyVoted ==
    [][/\ VotesExclusive'
       /\ RevoteStep =>
            /\ result' = (IF VotedProposalOpen THEN "AlreadyVoted" ELSE "ProposalExpired")
            /\ Proposals' = Proposals]_vars

\* a member who voted against has tried to vote again and got AlreadyVoted
C9_Witness ==
    /\ call.name = "vote_on_proposal"
    /\ result = "AlreadyVoted"
    /\ call.proposal_hash \in DOMAIN Proposals
    /\ call.origin \in Range(Proposals[call.proposal_hash].votes_against)

\* C10: with RequiredMajority = 66 and three council members, a proposal with
\* two for-votes is Approved and its parameter holds the proposed value.
C10_TwoForVotesApprove ==
    \A h \in DOMAIN Proposals :
        Len(Proposals[h].votes_for) >= 2 =>
            /\ Proposals[h].status = "Approved"
            /\ Proposals[h].parameter.kind = "MinSources" =>
                  MinSources = Proposals[h].parameter.value

\* C11: with RequiredMajority = 66 and three council members, a proposal that
\* the two members other than its proposer have both voted against is Rejected
\* and its parameter has the value it had before the proposal (genesis value).
C11_TwoAgainstReject ==
    \A h \in DOMAIN Proposals :
        Len(Proposals[h].votes_against) >= 2 =>
            /\ Proposals[h].status = "Rejected"
            /\ MinSources = MinSourcesForConsensus
            /\ UpdateInterval = MinUpdateInterval

\* a vote_on_proposal step by a council member on a stored proposal
MemberVoteStep ==
    /\ call'.name = "vote_on_proposal"
    /\ ensure_signed(call'.origin)
    /\ is_council_member(call'.origin)
    /\ call'.proposal_hash \in DOMAIN Proposals

\* C12: a vote by a council member on a stored proposal fails with
\* ProposalExpired exactly when the proposal is not Active or now > end_block,
\* whatever the approve flag; a vote at now = end_block on an Active proposal
\* is not refused as expired; a refused vote leaves the proposals unchanged.
C12_ExpiredIff ==
    [][MemberVoteStep =>
        LET proposal == Proposals[call'.proposal_hash] IN
        /\ (result' = "ProposalExpired") <=>
              (proposal.status # "Active" \/ now > proposal.end_block)
        /\ (proposal.status = "Active" /\ now = proposal.end_block) =>
              result' \in {"Ok", "AlreadyVoted"}
        /\ result' # "Ok" => Proposals' = Proposals]_vars

\* a vote has been recorded at the last block of the voting period
C12_Witness ==
    /\ call.name = "vote_on_proposal"
    /\ result = "Ok"
    /\ call.proposal_hash \in DOMAIN Proposals
    /\ now = Proposals[call.proposal_hash].end_block
    /\ call.origin \in Range(Proposals[call.proposal_hash].votes_against)

\* C13: propose_parameter_change by a signed caller outside the council fails
\* with NotCouncilMember; by a council member with a value outside the
\* parameter's range it fails with UpdateIntervalTooLow or UpdateIntervalTooHigh
\* (interval outside [MinUpdateInterval, MaxUpdateInterval]), InvalidMinSources
\* (outside [1, 10]) or InvalidParameterValue (threshold outside (0, 100]);
\* a failing call stores no proposal.
C13_ProposeRejections ==
    [][(call'.name = "propose_parameter_change" /\ ensure_signed(call'.origin)) =>
        LET kind == call'.parameter.kind
            value == call'.parameter.value
        IN
        /\ ~is_council_member(call'.origin) => result' = "NotCouncilMember"
        /\ is_council_member(call'.origin) =>
              /\ (kind = "UpdateInterval" /\ value < MinUpdateInterval) =>
                    result' = "UpdateIntervalTooLow"
              /\ (kind = "UpdateInterval" /\ value > MaxUpdateInterval) =>
                    result' = "UpdateIntervalTooHigh"
              /\ (kind = "MinSources" /\ (value < 1 \/ value > 10)) =>
                    result' = "InvalidMinSources"
              /\ (kind = "ConsensusThreshold" /\ (value <= 0 \/ value > 100)) =>
                    result' = "InvalidParameterValue"
        /\ result' # "Ok" => Proposals' = Proposals]_vars

\* a council member's proposal of an interval above the range has been
\* refused while a proposal is stored
C13_Witness ==
    /\ call.name = "propose_parameter_change"
    /\ result = "UpdateIntervalTooHigh"
    /\ is_council_member(call.origin)
    /\ Proposals # << >>

\* every stored proposal is Active: with RequiredMajority votes needed to
\* resolve and a council of three, no proposal reaches another status
ProposalsStayActive ==
    \A h \in DOMAIN Proposals : Proposals[h].status = "Active"

\* C15: in every reachable state MinSources is in [1, 10] and UpdateInterval
\* is in [MinUpdateInterval, MaxUpdateInterval].
C15_ParameterRanges ==
    /\ MinSources >= 1 /\ MinSources <= 10
    /\ UpdateInterval >= MinUpdateInterval /\ UpdateInterval <= MaxUpdateInterval

\* update_parameters has set both parameters to the upper ends of their ranges
C15_Witness ==
    /\ call.name = "update_parameters"
    /\ result = "Ok"
    /\ UpdateInterval = MaxUpdateInterval
    /\ MinSources = 10

\* an issue_reward step by a signed caller
IssueStep == call'.name = "issue_reward" /\ ensure_signed(call'.origin)

\* amount * (100 + percent) / 100 under either rounding of a half
BoostedBy(amount, percent) ==
    {(amount * (100 + percent)) \div 100, (amount * (100 + percent) + 99) \div 100}

\* the boost of a license type in percent
boost_percent(license_type) == get_boost(license_type) \div 10000

\* C16: with oracle value 100, no stake or a stake below MinimumStake, and an
\* active unexpired license of type t, issue_reward succeeds and credits the
\* miner BASE_REWARD * (1 + boost(t)): 20% Standard, 35% Premium, 50%
\* Enterprise.
C16_LicenseBoost ==
    [][(/\ IssueStep
        /\ CurrentHOI = 100
        /\ Licenses[call'.miner].active
        /\ now <= Licenses[call'.miner].expiry
        /\ StakingInfo[call'.miner] < MinimumStake)
       => /\ result' = "Ok"
          /\ free'[call'.miner] - free[call'.miner] \in
                BoostedBy(BASE_REWARD, boost_percent(Licenses[call'.miner].license_type))]_vars

\* C17: for a miner without an active license and without a stake,
\* issue_reward succeeds and credits floor(BASE_REWARD * CurrentHOI / 100)
\* (while that fits under MAX_SUPPLY): BASE_REWARD for 100.
C17_InflationScaling ==
    [][(/\ IssueStep
        /\ ~Licenses[call'.miner].active
        /\ StakingInfo[call'.miner] = 0
        /\ CurrentHOI \in {100, 105, 110}
        /\ TotalIssuance + (BASE_REWARD * CurrentHOI) \div 100 <= MAX_SUPPLY)
       => /\ result' = "Ok"
          /\ free'[call'.miner] - free[call'.miner] = (BASE_REWARD * CurrentHOI) \div 100]_vars

\* C18: a successful issue_reward for a miner with an active license and no
\* stake bonus credits the reward after inflation raised by boost(type) when
\* now <= expiry, and the reward after inflation alone when now > expiry.
C18_BoostUntilExpiry ==
    [][(/\ IssueStep
        /\ result' = "Ok"
        /\ Licenses[call'.miner].active
        /\ StakingInfo[call'.miner] < MinimumStake)
       => LET after_inflation == Permill_mul(Permill_from_parts(CurrentHOI), BASE_REWARD)
              credited == free'[call'.miner] - free[call'.miner]
          IN  IF now <= Licenses[call'.miner].expiry
              THEN credited \in
                     BoostedBy(after_inflation,
                               boost_percent(Licenses[call'.miner].license_type))
              ELSE credited = after_inflation]_vars

\* C19: a successful stake_tokens of amount a records a; unstake_tokens by an
\* account with a recorded stake a succeeds, moves exactly a from its reserved
\* to its free balance and deletes the record; unstake_tokens by an account
\* without a record (as right after an unstake) fails with NoStake and changes
\* no balance and no record.
C19_UnstakeOnce ==
    [][/\ (call'.name = "stake_tokens" /\ result' = "Ok") =>
              StakingInfo'[call'.origin] = call'.amount
       /\ (call'.name = "unstake_tokens" /\ ensure_signed(call'.origin)) =>
              IF StakingInfo[call'.origin] > 0
              THEN /\ result' = "Ok"
                   /\ reserved'[call'.origin] =
                         reserved[call'.origin] - StakingInfo[call'.origin]
                   /\ free'[call'.origin] = free[call'.origin] + StakingInfo[call'.origin]
                   /\ StakingInfo'[call'.origin] = 0
              ELSE /\ result' = "NoStake"
                   /\ UNCHANGED <<free, reserved, StakingInfo>>]_vars

\* an unstake has been refused with NoStake after an earlier unstake released
\* the recorded stake: the account has no record left, and the reserved
\* balance shows that it had staked
C19_Witness ==
    /\ call.name = "unstake_tokens"
    /\ result = "NoStake"
    /\ StakingInfo[call.origin] = 0
    /\ reserved[call.origin] > 0

\* C20: purchase_license by an account whose license is active fails with
\* LicenseAlreadyActive and changes neither the license records nor any
\* balance (the caller's and the treasury's included).
C20_LicenseAlreadyActive ==
    [][(/\ call'.name = "purchase_license"
        /\ ensure_signed(call'.origin)
        /\ Licenses[call'.origin].active)
       => /\ result' = "LicenseAlreadyActive"
          /\ UNCHANGED <<Licenses, free, reserved>>]_vars

\* the holder of an active license has been refused a license of another type
C20_Witness ==
    /\ call.name = "purchase_license"
    /\ result = "LicenseAlreadyActive"
    /\ Licenses[call.origin].active
    /\ Licenses[call.origin].license_type # call.license_type

\* fifteen hundredths of a price
fee_percent_of(price) == (price \div 100) * (TreasuryFeePercent \div 10000)

\* C21: a successful purchase_license(tier) increases the treasury's balance
\* by exactly fifteen percent of price(tier) and records the license as
\* active, of that tier, expiring LicenseDuration blocks after the current
\* block; when the transfer to the treasury fails the call fails and neither
\* a license nor a balance changes.
C21_PurchaseEffects ==
    [][call'.name = "purchase_license"
       => /\ result' = "Ok"
             => /\ free'[Treasury] =
                       free[Treasury] + fee_percent_of(get_price(call'.license_type))
                /\ Licenses'[call'.origin] =
                       [active |-> TRUE, expiry |-> now + LicenseDuration,
                        license_type |-> call'.license_type]
                /\ \A a \in Accounts \ {call'.origin} : Licenses'[a] = Licenses[a]
          /\ (/\ ensure_signed(call'.origin)
              /\ Currency_transfer_result(call'.origin, Treasury,
                     fee_percent_of(get_price(call'.license_type))) # "Ok")
             => /\ result' # "Ok"
                /\ UNCHANGED <<Licenses, free>>]_vars

\* the treasury has been paid for one license, and the purchase of an account
\* that cannot pay the fee has failed in the transfer and left it unlicensed
C21_Witness ==
    /\ call.name = "purchase_license"
    /\ result = "InsufficientBalance"
    /\ ~Licenses[call.origin].active
    /\ \E a \in Accounts :
          /\ Licenses[a].active
          /\ free[Treasury] =
                ExistentialDeposit + fee_percent_of(get_price(Licenses[a].license_type))

\* C22: a successful purchase_license(tier) decreases the buyer's free
\* balance by price(tier) plus the treasury fee.
C22_BuyerPaysPriceAndFee ==
    [][(call'.name = "purchase_license" /\ result' = "Ok")
       => free'[call'.origin] =
             free[call'.origin] - (get_price(call'.license_type)
                                   + fee_percent_of(get_price(call'.license_type)))]_vars

C24_ZeroRejected ==
    [][(call'.name = "submit_hoi" /\ call'.value = 0)
       => /\ result' # "Ok"
          /\ UNCHANGED <<CurrentHOI, LastUpdate>>]_vars

VoteRecorded == call'.name = "vote_on_proposal" /\ result' = "Ok"

C28_EnactsOneParameter ==
    [][(VoteRecorded /\ Proposals'[call'.proposal_hash].status = "Approved")
       => LET parameter == Proposals'[call'.proposal_hash].parameter IN
          /\ parameter.kind = "UpdateInterval"
                => UpdateInterval' = parameter.value /\ UNCHANGED MinSources
          /\ parameter.kind = "MinSources"
                => MinSources' = parameter.value /\ UNCHANGED UpdateInterval
          /\ parameter.kind = "ConsensusThreshold"
                => UNCHANGED <<UpdateInterval, MinSources>>
          /\ UNCHANGED <<AllowedSources, CurrentHOI, LastUpdate, SourceValues>>]_vars

\* a ConsensusThreshold proposal has been approved and the oracle parameters
\* are those of genesis
C28_Witness ==
    /\ call.name = "vote_on_proposal"
    /\ result = "Ok"
    /\ Proposals[call.proposal_hash].status = "Approved"
    /\ Proposals[call.proposal_hash].parameter.kind = "ConsensusThreshold"
    /\ UpdateInterval = MinUpdateInterval
    /\ MinSources = MinSourcesForConsensus

\* C29: AllowedSources never holds a source twice nor more than ten sources;
\* from the governance origin, add_source of a source that is present fails
\* with SourceAlreadyExists, add_source of another source when ten are
\* present fails with TooManySources, remove_source of an absent source fails
\* with SourceNotFound, and a failed call leaves AllowedSources as it was.
C29_SourcesBounded ==
    /\ [](/\ Len(AllowedSources) <= 10
          /\ \A i, k \in 1..Len(AllowedSources) :
                AllowedSources[i] = AllowedSources[k] => i = k)
    /\ [][(call'.name \in {"add_source", "remove_source"}
             /\ GovernanceOrigin(call'.origin))
           => LET present == call'.source \in Range(AllowedSources) IN
              /\ (call'.name = "add_source" /\ present)
                    => result' = "SourceAlreadyExists"
              /\ (call'.name = "add_source" /\ ~present /\ Len(AllowedSources) = 10)
                    => result' = "TooManySources"
              /\ (call'.name = "remove_source" /\ ~present)
                    => result' = "SourceNotFound"
              /\ result' # "Ok" => UNCHANGED AllowedSources]_vars

\* an eleventh source has been refused
C29_Witness ==
    /\ call.name = "add_source"
    /\ result = "TooManySources"
    /\ Len(AllowedSources) = 10
    /\ call.source \notin Range(AllowedSources)

C31_RecordIsReserved ==
    \A a \in Accounts : StakingInfo[a] = reserved[a]

\* C32: issue_reward credits the reward after the license step raised by
\* StakingBonus when the miner's recorded stake is at least MinimumStake, and
\* that reward unchanged otherwise; stated for a miner without a license,
\* whose reward after the license step is the reward after inflation.
C32_StakingBonus ==
    [][(IssueStep /\ result' = "Ok" /\ ~Licenses[call'.miner].active)
       => LET after_license ==
                  Permill_mul(Permill_from_parts(CurrentHOI), BASE_REWARD)
              credited == free'[call'.miner] - free[call'.miner]
          IN  IF StakingInfo[call'.miner] >= MinimumStake
              THEN credited \in BoostedBy(after_license, StakingBonus \div 10000)
              ELSE credited = after_license]_vars

C35_MintedIsCredited ==
    [][/\ (IssueStep /\ result' = "Ok")
          => /\ free'[call'.miner] - free[call'.miner] = final_reward(call'.miner)
             /\ TotalIssuance' - TotalIssuance = final_reward(call'.miner)
       /\ ~(IssueStep /\ result' = "Ok") => TotalIssuance' = TotalIssuance
       /\ TotalIssuance' >= TotalIssuance]_vars

\* C36: a license is inactive once now > expiry: purchase_license by a signed
\* caller at a block after the expiry of the caller's license does not fail
\* with LicenseAlreadyActive.
C36_ExpiredMayRepurchase ==
    [][(/\ call'.name = "purchase_license"
        /\ ensure_signed(call'.origin)
        /\ now > Licenses[call'.origin].expiry)
       => result' # "LicenseAlreadyActive"]_vars

C38_NeverExpired ==
    /\ [](\A h \in DOMAIN Proposals : Proposals[h].status # "Expired")
    /\ [][\A h \in DOMAIN Proposals :
            now > Proposals[h].end_block
            => /\ h \in DOMAIN Proposals'
               /\ Proposals'[h] = Proposals[h]]_vars

\* a member who had not voted has tried to vote after the deadline on a
\* proposal that another member voted on in time, and the proposal is Active
C38_Witness ==
    /\ call.name = "vote_on_proposal"
    /\ result = "ProposalExpired"
    /\ call.proposal_hash \in DOMAIN Proposals
    /\ LET p == Proposals[call.proposal_hash] IN
          /\ now > p.end_block
          /\ p.status = "Active"
          /\ is_council_member(call.origin)
          /\ ~has_voted(p, call.origin)
          /\ Len(p.votes_for) + Len(p.votes_against) = 2

\* a vote has left the proposal Approved with more votes against than for
MinorityApproved ==
    /\ VoteRecorded
    /\ LET after == Proposals'[call'.proposal_hash] IN
          /\ after.status = "Approved"
          /\ Len(after.votes_against) > Len(after.votes_for)

\* C39 as stated: for every RequiredMajority from 1 to 100, no vote leaves a
\* proposal Approved, or enacts it, with more votes against than for.
C39_NoMinorityApproval ==
    [][~MinorityApproved]_vars

\* C39: for every RequiredMajority from 50 to 100 (and for 1 and 2), no vote
\* leaves a proposal Approved with more votes against than for, and a vote
\* that leaves more votes against than for changes no parameter.
C39_NoMinorityApprovalFromHalf ==
    [][(VoteRecorded /\ call'.required_majority \in {1, 2} \cup (50..100))
       => /\ ~MinorityApproved
          /\ LET after == Proposals'[call'.proposal_hash] IN
                Len(after.votes_against) > Len(after.votes_for)
                => UNCHANGED <<UpdateInterval, MinSources>>]_vars

\* with RequiredMajority = 50 a proposal has been approved and enacted on a
\* tie, the most votes against that any approval has from 50 upwards
C39_Witness ==
    /\ call.name = "vote_on_proposal"
    /\ result = "Ok"
    /\ call.required_majority = 50
    /\ LET p == Proposals[call.proposal_hash] IN
          /\ p.status = "Approved"
          /\ Len(p.votes_for) = Len(p.votes_against)
          /\ MinSources = p.parameter.value

\* C40: every recorded stake is absent (zero) or at least MinimumStake.
C40_StakeAtLeastMinimum ==
    \A a \in Accounts : StakingInfo[a] = 0 \/ StakingInfo[a] >= MinimumStake

\* a stake below MinimumStake has been refused to an account whose recorded
\* stake is MinimumStake
C40_Witness ==
    /\ call.name = "stake_tokens"
    /\ result = "InsufficientStake"
    /\ call.amount < MinimumStake
    /\ StakingInfo[call.origin] >= MinimumStake

====
